---- MODULE Spec2Model ----
(***************************************************************************)
(* A model of src/tesseract/command.rs of rusty-tesseract: the command     *)
(* builder (get_tesseract_command, create_tesseract_command), the process  *)
(* runner (run_tesseract_command) and the three public operations          *)
(* (get_tesseract_version, get_tesseract_langs, image_to_string).          *)
(*                                                                         *)
(* Text is modelled as the bytes it is made of: a Vec<u8> and a String are *)
(* both sequences of numbers in 0..255, and String::from_utf8 is the check *)
(* that such a sequence is well-formed UTF-8.  The subprocess is the       *)
(* environment: whether spawn() and wait_with_output() succeed, what the   *)
(* child writes and how it ends are chosen nondeterministically.           *)
(***************************************************************************)
EXTENDS Integers, Sequences, FiniteSets

VARIABLES
    windows,     \* cfg!(target_os = "windows") of the build
    debug,       \* cfg!(debug_assertions) of the build
    pc,          \* position of the calling thread
    op,          \* the public operation being executed
    image,       \* the &Image argument of image_to_string
    args,        \* the &Args argument of image_to_string
    command,     \* the std::process::Command being assembled / run
    spawns,      \* calls of Command::spawn made by the current call
    children,    \* subprocesses actually created by the current call
    child,       \* state of the subprocess: "none", "running", "exited"
    held,        \* the Child handle and its pipes are owned by the call
    drained,     \* both pipes of the child were read to end of file
    waited,      \* wait_with_output(): "no" (not called), "ok" or "err"
    output,      \* the std::process::Output of wait_with_output
    out,         \* the decoded standard output
    err,         \* the decoded standard error
    run_result,  \* what run_tesseract_command returned
    result,      \* what the public operation returned
    printed      \* what the call wrote to the parent's standard output

vars == <<windows, debug, pc, op, image, args, command, spawns, children, child,
          held, drained, waited, output, out, err, run_result, result, printed>>

---------------------------------------------------------------------------
(* Bounds of the model.                                                    *)

\* longest generated standard-output text, in bytes
MaxLen == 3
\* largest number of engine configuration overrides in an Args value
MaxOverrides == 2

---------------------------------------------------------------------------
(* Text literals of the source, as bytes.                                  *)

\* "tesseract"
TESSERACT == <<116, 101, 115, 115, 101, 114, 97, 99, 116>>
\* "tesseract.exe"
TESSERACT_EXE == <<116, 101, 115, 115, 101, 114, 97, 99, 116, 46, 101, 120, 101>>
\* "--version"
VERSION_FLAG == <<45, 45, 118, 101, 114, 115, 105, 111, 110>>
\* "--list-langs"
LIST_LANGS_FLAG == <<45, 45, 108, 105, 115, 116, 45, 108, 97, 110, 103, 115>>
\* "stdout"
STDOUT_TOKEN == <<115, 116, 100, 111, 117, 116>>
\* "-l"
LANG_FLAG == <<45, 108>>
\* "--dpi"
DPI_FLAG == <<45, 45, 100, 112, 105>>
\* "--psm"
PSM_FLAG == <<45, 45, 112, 115, 109>>
\* "--oem"
OEM_FLAG == <<45, 45, 111, 101, 109>>
\* "-c"
CONFIG_FLAG == <<45, 99>>
\* "Process exited with code: "
EXITED_PREFIX == <<80, 114, 111, 99, 101, 115, 115, 32, 101, 120, 105, 116, 101,
                   100, 32, 119, 105, 116, 104, 32, 99, 111, 100, 101, 58, 32>>
\* ", stderr: "
STDERR_INFIX == <<44, 32, 115, 116, 100, 101, 114, 114, 58, 32>>
\* "Process terminated by signal, stderr: "
SIGNAL_PREFIX == <<80, 114, 111, 99, 101, 115, 115, 32, 116, 101, 114, 109, 105,
                   110, 97, 116, 101, 100, 32, 98, 121, 32, 115, 105, 103, 110,
                   97, 108, 44, 32, 115, 116, 100, 101, 114, 114, 58, 32>>
\* "Tesseract Command: "
SHOW_PREFIX == <<84, 101, 115, 115, 101, 114, 97, 99, 116, 32, 67, 111, 109, 109,
                 97, 110, 100, 58, 32>>
\* const CREATE_NO_WINDOW: u32 = 0x08000000
CREATE_NO_WINDOW == 134217728

---------------------------------------------------------------------------
(* Pure functions of the standard library the source calls.                *)

\* [String]::join(sep)
RECURSIVE Join(_, _)
Join(ss, sep) ==
    IF ss = <<>> THEN <<>>
    ELSE IF Len(ss) = 1 THEN ss[1]
    ELSE ss[1] \o sep \o Join(Tail(ss), sep)

\* the decimal digits of n >= 0
RECURSIVE Digits(_)
Digits(n) == IF n < 10 THEN <<48 + n>> ELSE Digits(n \div 10) \o <<48 + (n % 10)>>

\* i32::to_string
to_string(n) == IF n < 0 THEN <<45>> \o Digits(0 - n) ELSE Digits(n)

\* a UTF-8 continuation byte in lo..hi
InRange(b, i, lo, hi) == i <= Len(b) /\ b[i] >= lo /\ b[i] <= hi

\* the width of the well-formed UTF-8 sequence that starts at b[i], 0 if none does
Utf8Width(b, i) ==
    LET x == b[i] IN
    IF x < 128 THEN 1
    ELSE IF x >= 194 /\ x <= 223
        THEN IF InRange(b, i + 1, 128, 191) THEN 2 ELSE 0
    ELSE IF x >= 224 /\ x <= 239
        THEN IF /\ \/ x = 224 /\ InRange(b, i + 1, 160, 191)
                   \/ x >= 225 /\ x <= 236 /\ InRange(b, i + 1, 128, 191)
                   \/ x = 237 /\ InRange(b, i + 1, 128, 159)
                   \/ x >= 238 /\ InRange(b, i + 1, 128, 191)
                /\ InRange(b, i + 2, 128, 191)
             THEN 3 ELSE 0
    ELSE IF x >= 240 /\ x <= 244
        THEN IF /\ \/ x = 240 /\ InRange(b, i + 1, 144, 191)
                   \/ x >= 241 /\ x <= 243 /\ InRange(b, i + 1, 128, 191)
                   \/ x = 244 /\ InRange(b, i + 1, 128, 143)
                /\ InRange(b, i + 2, 128, 191)
                /\ InRange(b, i + 3, 128, 191)
             THEN 4 ELSE 0
    ELSE 0

RECURSIVE ValidFrom(_, _)
ValidFrom(b, i) ==
    IF i > Len(b) THEN TRUE
    ELSE LET w == Utf8Width(b, i) IN
         IF w = 0 THEN FALSE ELSE ValidFrom(b, i + w)

\* String::from_utf8(b).is_ok()
from_utf8_ok(b) == ValidFrom(b, 1)

\* the index of the first line feed of s, 0 when it has none
FirstLf(s) ==
    IF \E i \in 1..Len(s) : s[i] = 10
    THEN CHOOSE i \in 1..Len(s) : s[i] = 10 /\ \A j \in 1..(i - 1) : s[j] # 10
    ELSE 0

\* a line without its "\n": a "\r" right before the "\n" goes too
StripCr(l) == IF l # <<>> /\ l[Len(l)] = 13 THEN SubSeq(l, 1, Len(l) - 1) ELSE l

\* str::lines(): split at "\n" or "\r\n"; the final line ending is optional, and
\* a "\r" that no "\n" follows stays in its line
RECURSIVE Lines(_)
Lines(s) ==
    IF s = <<>> THEN <<>>
    ELSE LET k == FirstLf(s) IN
         IF k = 0 THEN <<s>>
         ELSE <<StripCr(SubSeq(s, 1, k - 1))>> \o Lines(SubSeq(s, k + 1, Len(s)))

\* Iterator::skip(n)
Skip(s, n) == IF n >= Len(s) THEN <<>> ELSE SubSeq(s, n + 1, Len(s))

---------------------------------------------------------------------------
(* Values.                                                                 *)

NoText == <<>>
NoCommand == [program |-> NoText, args |-> <<>>, stdout |-> "inherit",
              stderr |-> "inherit", creation_flags |-> 0]
NoImage == [path_ok |-> FALSE, path |-> NoText]
NoArgs == [lang |-> NoText, dpi |-> 0, psm |-> 0, oem |-> 0, config_variables |-> <<>>]
NoStatus == [has_code |-> FALSE, code |-> 0]
NoOutput == [stdout |-> NoText, stderr |-> NoText, status |-> NoStatus]
NoResult == [tag |-> "none", variant |-> "", text |-> NoText, langs |-> <<>>]

\* Ok(text) of TessResult<String>
OkText(t) == [tag |-> "Ok", variant |-> "", text |-> t, langs |-> <<>>]
\* Ok(langs) of TessResult<Vec<String>>
OkLangs(ls) == [tag |-> "Ok", variant |-> "", text |-> NoText, langs |-> ls]
\* Err(TessError::<variant>(msg))
ErrOf(v, msg) == [tag |-> "Err", variant |-> v, text |-> msg, langs |-> <<>>]
\* the thread unwinds out of the call: unwrap() of an Err
Panicked == [tag |-> "panic", variant |-> "", text |-> NoText, langs |-> <<>>]

---------------------------------------------------------------------------
(* Inputs: what callers pass and what the environment does.                *)

\* "eng", "deu"
Langs == {<<101, 110, 103>>, <<100, 101, 117>>}
Dpis == {300, 70, 0, -1}
Psms == {0, 3, 13}
Oems == {1, 3}
\* "page.png", "scan.tif"
Paths == {<<112, 97, 103, 101, 46, 112, 110, 103>>, <<115, 99, 97, 110, 46, 116, 105, 102>>}
\* the overrides k=v and a=b
Overrides == {[key |-> <<107>>, value |-> <<118>>], [key |-> <<97>>, value |-> <<98>>]}

\* an Image whose path resolves, and one whose get_image_path() is an Err
Images == {[path_ok |-> TRUE, path |-> p] : p \in Paths} \cup {NoImage}

OverrideLists == UNION {[1..n -> Overrides] : n \in 0..MaxOverrides}

AllArgs == [lang : Langs, dpi : Dpis, psm : Psms, oem : Oems,
            config_variables : OverrideLists]

\* the Args values the public operation is exercised with
CallArgs == {a \in AllArgs : /\ a.lang = <<101, 110, 103>> /\ a.dpi = 300
                             /\ a.psm = 3 /\ a.oem = 3
                             /\ Len(a.config_variables) \in {0, MaxOverrides}}
CallImages == {i \in Images : i.path # <<115, 99, 97, 110, 46, 116, 105, 102>>}

\* bytes a child's standard output is generated from: "h", "\n", and 0xC3,
\* which is not UTF-8 unless a continuation byte follows
Alphabet == {104, 10, 195}
\* "L\ne\no\ne\n", "h\r\ne\r\n", "h\r", "\303\251\n" (valid two-byte text)
StdoutSamples == {<<76, 10, 101, 10, 111, 10, 101, 10>>,
                  <<104, 13, 10, 101, 13, 10>>,
                  <<104, 13>>,
                  <<195, 169, 10>>}
Stdouts == StdoutSamples \cup UNION {[1..n -> Alphabet] : n \in 0..MaxLen}
\* "", "boom", "\303\251" (valid), "\303" (not UTF-8)
Stderrs == {<<>>, <<98, 111, 111, 109>>, <<195, 169>>, <<195>>}
\* ExitStatus::code(): Some(0), Some(1), Some(101), None
Statuses == {[has_code |-> TRUE, code |-> c] : c \in {0, 1, 101}} \cup {NoStatus}

Outputs == [stdout : Stdouts, stderr : Stderrs, status : Statuses]

---------------------------------------------------------------------------
(* Command builder.                                                        *)

\* Command::arg
Arg(cmd, a) == [cmd EXCEPT !.args = Append(@, a)]

get_tesseract_command(win) ==
    [NoCommand EXCEPT !.program = IF win THEN TESSERACT_EXE ELSE TESSERACT]

\* Image::get_image_path: a path, or an error the caller propagates with `?`.
\* The error is whatever TessError get_image_path returns; it is named
\* "ImagePathError" where a result carries it.
get_image_path(img) ==
    IF img.path_ok THEN [ok |-> TRUE, path |-> img.path]
    ELSE [ok |-> FALSE, path |-> NoText]

\* key=value
KeyValue(kv) == kv.key \o <<61>> \o kv.value

RECURSIVE KeyValues(_)
KeyValues(kvs) ==
    IF kvs = <<>> THEN <<>> ELSE <<KeyValue(Head(kvs))>> \o KeyValues(Tail(kvs))

\* Args::get_config_variable_args: None without overrides, else one combined string
get_config_variable_args(a) ==
    IF a.config_variables = <<>> THEN [some |-> FALSE, value |-> NoText]
    ELSE [some |-> TRUE, value |-> Join(KeyValues(a.config_variables), <<44>>)]

\* a builder that passes one "-c" per override instead of one combined flag
RECURSIVE ConfigPairs(_)
ConfigPairs(kvs) ==
    IF kvs = <<>> THEN <<>>
    ELSE <<CONFIG_FLAG, KeyValue(Head(kvs))>> \o ConfigPairs(Tail(kvs))

create_tesseract_command_flag_per_override(win, img, a) ==
    LET path == get_image_path(img)
        base == Arg(Arg(Arg(Arg(Arg(Arg(Arg(Arg(Arg(Arg(get_tesseract_command(win),
                    path.path), STDOUT_TOKEN), LANG_FLAG), a.lang), DPI_FLAG),
                    to_string(a.dpi)), PSM_FLAG), to_string(a.psm)), OEM_FLAG),
                    to_string(a.oem))
    IN  IF ~path.ok THEN [ok |-> FALSE, command |-> NoCommand]
        ELSE [ok |-> TRUE,
              command |-> [base EXCEPT !.args = @ \o ConfigPairs(a.config_variables)]]

\* a builder that takes unwrap_or_default() of the path instead of `?`
create_tesseract_command_default_path(win, img, a) ==
    LET path == get_image_path(img)
        base == Arg(Arg(Arg(Arg(Arg(Arg(Arg(Arg(Arg(Arg(get_tesseract_command(win),
                    path.path), STDOUT_TOKEN), LANG_FLAG), a.lang), DPI_FLAG),
                    to_string(a.dpi)), PSM_FLAG), to_string(a.psm)), OEM_FLAG),
                    to_string(a.oem))
        parameter == get_config_variable_args(a)
    IN  IF parameter.some
        THEN [ok |-> TRUE, command |-> Arg(Arg(base, CONFIG_FLAG), parameter.value)]
        ELSE [ok |-> TRUE, command |-> base]

create_tesseract_command(win, img, a) ==
    LET path == get_image_path(img)
        base == Arg(Arg(Arg(Arg(Arg(Arg(Arg(Arg(Arg(Arg(get_tesseract_command(win),
                    path.path), STDOUT_TOKEN), LANG_FLAG), a.lang), DPI_FLAG),
                    to_string(a.dpi)), PSM_FLAG), to_string(a.psm)), OEM_FLAG),
                    to_string(a.oem))
        parameter == get_config_variable_args(a)
    IN  IF ~path.ok THEN [ok |-> FALSE, command |-> NoCommand]
        ELSE IF parameter.some
             THEN [ok |-> TRUE, command |-> Arg(Arg(base, CONFIG_FLAG), parameter.value)]
             ELSE [ok |-> TRUE, command |-> base]

\* the line show_command prints with println!
show_command(cmd) ==
    SHOW_PREFIX \o cmd.program \o <<32>> \o Join(cmd.args, <<32>>) \o <<10>>

---------------------------------------------------------------------------
(* Process runner.                                                         *)

\* str::trim_end of a trailing line feed
TrimEnd(t) == IF t # <<>> /\ t[Len(t)] = 10 THEN SubSeq(t, 1, Len(t) - 1) ELSE t

\* a match that returns the trimmed standard output
status_result_trimmed(status, o, e) ==
    IF status.has_code /\ status.code = 0 THEN OkText(TrimEnd(o))
    ELSE IF status.has_code
         THEN ErrOf("VersionError",
                    EXITED_PREFIX \o to_string(status.code) \o STDERR_INFIX \o e)
         ELSE ErrOf("VersionError", SIGNAL_PREFIX \o e)

\* a match whose failure arm is `_ => Err(TessError::VersionError(err))`
status_result_stderr_only(status, o, e) ==
    IF status.has_code /\ status.code = 0 THEN OkText(o)
    ELSE ErrOf("VersionError", e)

\* the match on status.code() of run_tesseract_command
status_result(status, o, e) ==
    IF status.has_code /\ status.code = 0 THEN OkText(o)
    ELSE IF status.has_code
         THEN ErrOf("VersionError",
                    EXITED_PREFIX \o to_string(status.code) \o STDERR_INFIX \o e)
         ELSE ErrOf("VersionError", SIGNAL_PREFIX \o e)

\* the lines without the skip(1)
langs_of_no_skip(text) == Lines(text)

\* output.lines().skip(1).map(|x| x.into()).collect()
langs_of(text) == Skip(Lines(text), 1)

\* a get_tesseract_langs that takes unwrap_or_default() of the runner's result
op_result_swallow(o, rr) ==
    IF o = "get_tesseract_langs"
    THEN IF rr.tag = "Err" THEN OkLangs(<<>>) ELSE OkLangs(langs_of(rr.text))
    ELSE IF rr.tag = "Err" THEN rr ELSE OkText(rr.text)

\* what each public operation makes of the runner's result
op_result(o, rr) ==
    IF rr.tag = "Err" THEN rr
    ELSE IF o = "get_tesseract_langs" THEN OkLangs(langs_of(rr.text))
    ELSE OkText(rr.text)

---------------------------------------------------------------------------
(* The calling thread.                                                     *)

Init ==
    /\ windows \in BOOLEAN
    /\ debug \in BOOLEAN
    /\ pc = "idle"
    /\ op = "none"
    /\ image = NoImage
    /\ args = NoArgs
    /\ command = NoCommand
    /\ spawns = 0
    /\ children = 0
    /\ child = "none"
    /\ held = FALSE
    /\ drained = FALSE
    /\ waited = "no"
    /\ output = NoOutput
    /\ out = NoText
    /\ err = NoText
    /\ run_result = NoResult
    /\ result = NoResult
    /\ printed = NoText

\* a fresh call: nothing of an earlier call is kept
Enter(o, img, a, cmd, next) ==
    /\ pc \in {"idle", "done"}
    /\ op' = o
    /\ image' = img
    /\ args' = a
    /\ command' = cmd
    /\ pc' = next
    /\ spawns' = 0
    /\ children' = 0
    /\ child' = "none"
    /\ held' = FALSE
    /\ drained' = FALSE
    /\ waited' = "no"
    /\ output' = NoOutput
    /\ out' = NoText
    /\ err' = NoText
    /\ run_result' = NoResult
    /\ result' = NoResult
    /\ printed' = NoText
    /\ UNCHANGED <<windows, debug>>

get_tesseract_version ==
    Enter("get_tesseract_version", NoImage, NoArgs,
          Arg(get_tesseract_command(windows), VERSION_FLAG), "spawn")

get_tesseract_langs ==
    Enter("get_tesseract_langs", NoImage, NoArgs,
          Arg(get_tesseract_command(windows), LIST_LANGS_FLAG), "spawn")

image_to_string ==
    \E img \in CallImages, a \in CallArgs :
        Enter("image_to_string", img, a, NoCommand, "create")

\* let mut command = create_tesseract_command(image, args)?;
CreateCommand ==
    /\ pc = "create"
    /\ LET c == create_tesseract_command(windows, image, args) IN
        IF c.ok
        THEN /\ command' = c.command
             /\ pc' = "spawn"
             /\ result' = result
        ELSE /\ command' = command
             /\ pc' = "done"
             /\ result' = ErrOf("ImagePathError", NoText)
    /\ UNCHANGED <<windows, debug, op, image, args, spawns, children, child, held,
                   drained, waited, output, out, err, run_result, printed>>

\* a runner that calls spawn() a second time when the first call fails
SpawnRetry ==
    /\ pc = "spawn"
    /\ printed' = IF debug THEN show_command(command) ELSE printed
    /\ command' = [command EXCEPT
                     !.creation_flags = IF windows THEN CREATE_NO_WINDOW ELSE @,
                     !.stdout = "piped", !.stderr = "piped"]
    /\ \E first \in BOOLEAN, second \in BOOLEAN :
        /\ spawns' = IF first THEN spawns + 1 ELSE spawns + 2
        /\ IF first \/ second
           THEN /\ children' = children + 1
                /\ child' = "running"
                /\ held' = TRUE
                /\ run_result' = run_result
                /\ pc' = "wait"
           ELSE /\ UNCHANGED <<children, child, held>>
                /\ run_result' = ErrOf("TesseractNotFoundError", NoText)
                /\ pc' = "return"
    /\ UNCHANGED <<windows, debug, op, image, args, drained, waited, output, out, err,
                   result>>

\* show_command, creation_flags, stdout/stderr piped, spawn
Spawn ==
    /\ pc = "spawn"
    /\ printed' = IF debug THEN show_command(command) ELSE printed
    /\ command' = [command EXCEPT
                     !.creation_flags = IF windows THEN CREATE_NO_WINDOW ELSE @,
                     !.stdout = "piped", !.stderr = "piped"]
    /\ spawns' = spawns + 1
    /\ \E spawned \in BOOLEAN :
        IF spawned
        THEN /\ children' = children + 1
             /\ child' = "running"
             /\ held' = TRUE
             /\ run_result' = run_result
             /\ pc' = "wait"
        ELSE /\ UNCHANGED <<children, child, held>>
             /\ run_result' = ErrOf("TesseractNotFoundError", NoText)
             /\ pc' = "return"
    /\ UNCHANGED <<windows, debug, op, image, args, drained, waited, output, out, err, result>>

\* a runner that polls the child once (try_wait) and keeps the handle
WaitTryOnce ==
    /\ pc = "wait"
    /\ held' = TRUE
    /\ \/ \E o \in Outputs :
            /\ output' = o
            /\ child' \in {"running", "exited"}
            /\ drained' = (child' = "exited")
            /\ waited' = "ok"
            /\ run_result' = run_result
            /\ pc' = "decode"
       \/ /\ output' = output
          /\ child' \in {"running", "exited"}
          /\ drained' \in BOOLEAN
          /\ waited' = "err"
          /\ run_result' = ErrOf("TesseractNotFoundError", NoText)
          /\ pc' = "return"
    /\ UNCHANGED <<windows, debug, op, image, args, command, spawns, children,
                   out, err, result, printed>>

\* child.wait_with_output(): the handle is moved in and gone when it returns.
\* Ok(output) means the child exited and both pipes were read to the end; an
\* Err says neither, and a dropped Child is neither killed nor waited for.
WaitWithOutput ==
    /\ pc = "wait"
    /\ held' = FALSE
    /\ \/ \E o \in Outputs :
            /\ output' = o
            /\ child' = "exited"
            /\ drained' = TRUE
            /\ waited' = "ok"
            /\ run_result' = run_result
            /\ pc' = "decode"
       \/ /\ output' = output
          /\ child' \in {"running", "exited"}
          /\ drained' \in BOOLEAN
          /\ waited' = "err"
          /\ run_result' = ErrOf("TesseractNotFoundError", NoText)
          /\ pc' = "return"
    /\ UNCHANGED <<windows, debug, op, image, args, command, spawns, children,
                   out, err, result, printed>>

\* a runner that decodes standard error only when it needs it for a message
DecodeLazy ==
    /\ pc = "decode"
    /\ IF ~from_utf8_ok(output.stdout)
       THEN /\ UNCHANGED <<out, err>>
            /\ run_result' = Panicked
            /\ result' = Panicked
            /\ pc' = "crashed"
       ELSE IF ~(output.status.has_code /\ output.status.code = 0)
               /\ ~from_utf8_ok(output.stderr)
       THEN /\ out' = output.stdout
            /\ err' = err
            /\ run_result' = Panicked
            /\ result' = Panicked
            /\ pc' = "crashed"
       ELSE /\ out' = output.stdout
            /\ err' = IF from_utf8_ok(output.stderr) THEN output.stderr ELSE err
            /\ UNCHANGED <<run_result, result>>
            /\ pc' = "match"
    /\ UNCHANGED <<windows, debug, op, image, args, command, spawns, children, child,
                   held, drained, waited, output, printed>>

\* String::from_utf8(output.stdout).unwrap(), String::from_utf8(output.stderr).unwrap()
Decode ==
    /\ pc = "decode"
    /\ IF ~from_utf8_ok(output.stdout)
       THEN /\ UNCHANGED <<out, err>>
            /\ run_result' = Panicked
            /\ result' = Panicked
            /\ pc' = "crashed"
       ELSE IF ~from_utf8_ok(output.stderr)
       THEN /\ out' = output.stdout
            /\ err' = err
            /\ run_result' = Panicked
            /\ result' = Panicked
            /\ pc' = "crashed"
       ELSE /\ out' = output.stdout
            /\ err' = output.stderr
            /\ UNCHANGED <<run_result, result>>
            /\ pc' = "match"
    /\ UNCHANGED <<windows, debug, op, image, args, command, spawns, children, child,
                   held, drained, waited, output, printed>>

\* match status.code() { ... }
MatchStatus ==
    /\ pc = "match"
    /\ run_result' = status_result(output.status, out, err)
    /\ pc' = "return"
    /\ UNCHANGED <<windows, debug, op, image, args, command, spawns, children, child,
                   held, drained, waited, output, out, err, result, printed>>

\* the public operation returns what it makes of the runner's result
Return ==
    /\ pc = "return"
    /\ result' = op_result(op, run_result)
    /\ pc' = "done"
    /\ UNCHANGED <<windows, debug, op, image, args, command, spawns, children, child,
                   held, drained, waited, output, out, err, run_result, printed>>

Next ==
    \/ get_tesseract_version
    \/ get_tesseract_langs
    \/ image_to_string
    \/ CreateCommand
    \/ Spawn
    \/ WaitWithOutput
    \/ Decode
    \/ MatchStatus
    \/ Return

Spec == Init /\ [][Next]_vars

---------------------------------------------------------------------------
(* The command builder alone: create_tesseract_command applied to every    *)
(* Image and every Args value of the input sets.                           *)

InitBuild ==
    /\ windows \in BOOLEAN
    /\ debug \in BOOLEAN
    /\ pc = "create"
    /\ op = "image_to_string"
    /\ image \in Images
    /\ args \in AllArgs
    /\ command = NoCommand
    /\ spawns = 0
    /\ children = 0
    /\ child = "none"
    /\ held = FALSE
    /\ drained = FALSE
    /\ waited = "no"
    /\ output = NoOutput
    /\ out = NoText
    /\ err = NoText
    /\ run_result = NoResult
    /\ result = NoResult
    /\ printed = NoText

NextBuild == CreateCommand

SpecBuild == InitBuild /\ [][NextBuild]_vars

---------------------------------------------------------------------------
(* Vocabulary of the properties.                                           *)

\* sub occurs in msg as a contiguous run of bytes
Contains(msg, sub) ==
    \E i \in 0..(Len(msg) - Len(sub)) : SubSeq(msg, i + 1, i + Len(sub)) = sub

\* the number of lines of a text, counted from its line feeds
LineCount(s) ==
    Cardinality({i \in 1..Len(s) : s[i] = 10})
        + (IF s # <<>> /\ s[Len(s)] # 10 THEN 1 ELSE 0)

\* the public operation is over: it returned, or it unwound by a panic
Ended == pc \in {"done", "crashed"}
\* run_tesseract_command returned to the public operation
RunnerReturned == pc \in {"return", "done"} /\ spawns = 1
\* the subprocess completed by a normal exit with status code zero
ExitedZero == waited = "ok" /\ output.status.has_code /\ output.status.code = 0
\* the subprocess completed otherwise: a nonzero code, or no code at all
ExitedOtherwise == waited = "ok" /\ ~(output.status.has_code /\ output.status.code = 0)
\* both captured streams are valid UTF-8
StreamsValid == from_utf8_ok(output.stdout) /\ from_utf8_ok(output.stderr)
ProcessError(r) == r.tag = "Err" /\ r.variant = "VersionError"
BinaryNotFound(r) == r.tag = "Err" /\ r.variant = "TesseractNotFoundError"
\* "terminated by signal"
SIGNAL_NOTE == <<116, 101, 114, 109, 105, 110, 97, 116, 101, 100, 32, 98, 121, 32,
                 115, 105, 103, 110, 97, 108>>
\* "boom"
BOOM == <<98, 111, 111, 109>>
\* the message of a process error names the way the child ended and its stderr
MessageTells(r) ==
    /\ Contains(r.text, output.stderr)
    /\ IF output.status.has_code
       THEN /\ Contains(r.text, to_string(output.status.code))
            /\ output.status.code = 1 => Contains(r.text, <<49>>)
            /\ output.status.code = 101 => Contains(r.text, <<49, 48, 49>>)
       ELSE Contains(r.text, SIGNAL_NOTE)

---------------------------------------------------------------------------
(* C1.  As claimed: every call of a public operation has called spawn()    *)
(* exactly once when it ends.                                              *)
C1_ExactlyOneSpawn == Ended => spawns = 1

\* C1, amended.  A call never calls spawn() more than once (no retry), and a
\* call that has ended has called it exactly once, except image_to_string when
\* get_image_path fails: that call ends with the path error and no spawn at all.
\* A subprocess exists only when the one spawn() succeeded.
C1_SpawnCount ==
    /\ spawns <= 1
    /\ children <= spawns
    /\ Ended =>
        /\ spawns = 0 <=> (op = "image_to_string" /\ ~get_image_path(image).ok)
        /\ spawns = 0 => result = ErrOf("ImagePathError", NoText)
        /\ BinaryNotFound(result) /\ waited = "no" => children = 0

C1_Witness ==
    /\ pc = "done" /\ op = "image_to_string"
    /\ spawns = 1 /\ children = 1 /\ result.tag = "Err"

(* C2.  As claimed: whenever the subprocess exited with code zero, the     *)
(* runner returned Ok with exactly the captured standard output.           *)
C2_ZeroExitIsSuccess ==
    ExitedZero /\ pc \in {"return", "done", "crashed"}
        => run_result = OkText(output.stdout)

\* C2, amended.  Whenever the subprocess exited with code zero and both captured
\* streams are valid UTF-8, run_tesseract_command returns Ok with exactly the
\* captured standard output, untrimmed, and get_tesseract_version and
\* image_to_string return that same text.
C2_ZeroExitValidText ==
    ExitedZero /\ StreamsValid =>
        /\ pc # "crashed"
        /\ pc \in {"return", "done"} => run_result = OkText(output.stdout)
        /\ pc = "done" /\ op \in {"get_tesseract_version", "image_to_string"}
            => result = OkText(output.stdout)

C2_Witness ==
    /\ pc = "done" /\ op = "get_tesseract_version" /\ ExitedZero
    /\ output.stdout = <<104, 10>>
    /\ result = OkText(<<104, 10>>)

(* C3.  As claimed: whenever the subprocess completed other than by exit   *)
(* code zero, the runner returned a process error whose message has the    *)
(* code (or the signal note) and the captured standard error.              *)
C3_FailureIsProcessError ==
    ExitedOtherwise /\ pc \in {"return", "done", "crashed"}
        => ProcessError(run_result) /\ MessageTells(run_result)

\* C3, amended.  Whenever the subprocess completed other than by exit code zero,
\* the call never yields success; and when both captured streams are valid UTF-8
\* run_tesseract_command returns a process error whose message contains the
\* numeric code, or the termination note when there is no code, and the full
\* captured standard error.
C3_FailureValidText ==
    ExitedOtherwise =>
        /\ run_result.tag # "Ok" /\ result.tag # "Ok"
        /\ StreamsValid =>
            /\ pc # "crashed"
            /\ pc \in {"return", "done"}
                => ProcessError(run_result) /\ MessageTells(run_result)

C3_Witness ==
    /\ pc = "return"
    /\ output.status = [has_code |-> TRUE, code |-> 1]
    /\ output.stderr = BOOM
    /\ ProcessError(run_result)
    /\ Contains(run_result.text, BOOM) /\ Contains(run_result.text, <<49>>)

(* C4.  As claimed: binary-not-found is returned when spawn() fails and    *)
(* for no failure after a subprocess was created.                          *)
C4_NotFoundOnlyWithoutChild ==
    /\ RunnerReturned /\ children = 0 => BinaryNotFound(run_result)
    /\ BinaryNotFound(run_result) => children = 0

(* C5.  As claimed: a call ends with Ok or with one of the two error kinds *)
(* binary-not-found and process-error, and in no other way.                *)
C5_OnlyThreeOutcomes ==
    Ended => \/ result.tag = "Ok"
             \/ BinaryNotFound(result)
             \/ ProcessError(result)

\* C5, amended.  A call ends in one of five ways: Ok with the captured text;
\* binary-not-found; process-error; for image_to_string, the error of
\* get_image_path, before any spawn; or a panic, exactly when wait_with_output
\* succeeded and a captured stream is not valid UTF-8.  An error of the runner
\* is returned as it is, never turned into a success.
C5_Outcomes ==
    /\ Ended => result.tag \in {"Ok", "Err", "panic"}
    /\ Ended /\ result.tag = "Err" =>
        result.variant \in {"TesseractNotFoundError", "VersionError", "ImagePathError"}
    /\ result.variant = "ImagePathError" =>
        op = "image_to_string" /\ ~get_image_path(image).ok /\ spawns = 0
    /\ pc = "crashed" <=> result.tag = "panic"
    /\ result.tag = "panic" => waited = "ok" /\ ~StreamsValid
    /\ pc = "done" /\ run_result.tag = "Err" => result = run_result
    /\ pc = "done" /\ result.tag = "Ok" => run_result.tag = "Ok"

C5_Witness ==
    /\ pc = "done" /\ op = "get_tesseract_langs"
    /\ ProcessError(run_result) /\ result = run_result

\* C6.  Once create_tesseract_command has returned a command, its arguments are
\* the path, "stdout", "-l" lang, "--dpi" dpi, "--psm" psm, "--oem" oem in that
\* order, followed by one "-c" param pair when the Args value has overrides and
\* by nothing when it has none.
C6_ArgumentList ==
    op = "image_to_string" /\ pc = "spawn" =>
        /\ command.args =
              <<image.path, STDOUT_TOKEN, LANG_FLAG, args.lang, DPI_FLAG,
                to_string(args.dpi), PSM_FLAG, to_string(args.psm), OEM_FLAG,
                to_string(args.oem)>>
              \o (IF args.config_variables = <<>> THEN <<>>
                  ELSE <<CONFIG_FLAG, get_config_variable_args(args).value>>)
        /\ Cardinality({i \in 1..Len(command.args) : command.args[i] = CONFIG_FLAG})
              = (IF args.config_variables = <<>> THEN 0 ELSE 1)
        /\ ( /\ image.path = <<112, 97, 103, 101, 46, 112, 110, 103>>
             /\ args = [lang |-> <<101, 110, 103>>, dpi |-> 300, psm |-> 3, oem |-> 3,
                        config_variables |-> <<>>] )
            => command.args =
                  << <<112, 97, 103, 101, 46, 112, 110, 103>>,
                     <<115, 116, 100, 111, 117, 116>>,
                     <<45, 108>>, <<101, 110, 103>>,
                     <<45, 45, 100, 112, 105>>, <<51, 48, 48>>,
                     <<45, 45, 112, 115, 109>>, <<51>>,
                     <<45, 45, 111, 101, 109>>, <<51>> >>

C6_Witness ==
    /\ pc = "spawn" /\ op = "image_to_string"
    /\ Len(args.config_variables) = 2
    /\ Len(command.args) = 12
    /\ command.args[11] = CONFIG_FLAG

C9_NeverAnError ==
    op = "image_to_string" /\ pc # "create" /\ pc # "idle"
        => spawns = 1 \/ pc = "spawn"

\* C9, amended.  create_tesseract_command returns an error exactly when
\* get_image_path fails, and that error is the one image_to_string returns; for
\* an image whose path resolves it returns a command for every Args value.
C9_ErrorOnlyFromImagePath ==
    op = "image_to_string" /\ pc # "create" /\ pc # "idle" =>
        IF get_image_path(image).ok
        THEN /\ command.program = get_tesseract_command(windows).program
             /\ Len(command.args) >= 10
             /\ result.variant # "ImagePathError"
        ELSE /\ pc = "done"
             /\ command = NoCommand
             /\ result = ErrOf("ImagePathError", NoText)

C9_Witness ==
    /\ pc = "done" /\ op = "image_to_string"
    /\ ~get_image_path(image).ok
    /\ result = ErrOf("ImagePathError", NoText)

\* C10.  Both captured streams are decoded before the exit status is looked at:
\* once the decoding step is past, a captured stream that is not valid UTF-8
\* means the call has panicked and returned nothing, whatever the exit status;
\* the match on the status is reached only with both streams decoded.
C10_InvalidTextCrashes ==
    /\ waited = "ok" /\ pc # "decode" /\ ~StreamsValid
        => pc = "crashed" /\ run_result = Panicked /\ result = Panicked
    /\ waited = "ok" /\ pc \in {"match", "return", "done"}
        => StreamsValid /\ out = output.stdout /\ err = output.stderr

C10_Witness ==
    /\ pc = "crashed" /\ ExitedZero
    /\ from_utf8_ok(output.stdout) /\ ~from_utf8_ok(output.stderr)
    /\ result = Panicked

====
